---- MODULE Spec2Model ----
(***************************************************************************)
(* A model of danmandel/trading-client: the Alpaca streaming client        *)
(* (src/alpaca.rs), the subscription builders (datastructures/client.rs)   *)
(* and the event decoder (datastructures/event.rs).                        *)
(*                                                                         *)
(* Texts are modelled as sequences of words, and str::contains as a search *)
(* for a word in the sequence.  JSON objects are records.  A URL is a      *)
(* record of its scheme, host and path.                                    *)
(***************************************************************************)
EXTENDS Integers, Sequences, FiniteSets, TLC

VARIABLES
    \* --- AlpacaClient::subscribe (src/alpaca.rs) ---
    pc,          \* position of the subscribe future
    client,      \* the AlpacaClient built by new(config)
    params,      \* the SubscriptionParams the caller built
    ws_url,      \* the local ws_url of subscribe
    io,          \* every interaction with the transport, in order
    stdout,      \* the lines printed, in order
    result,      \* what subscribe returned
    \* --- SubscriptionParamsBuilder (src/datastructures/client.rs) ---
    bpc,         \* "building", "built" or "panicked"
    builder,     \* the SubscriptionParamsBuilder value being threaded through
    lastArg,     \* history: per channel, the argument of the last call of its setter ({} if none)
    lastFeed,    \* history: the argument of the last call of feed_type ({} if none)
    ncalls,      \* history: number of channel setter calls made
    built,       \* the SubscriptionParams that build() returned
    \* --- EventType::from_str (src/datastructures/event.rs) ---
    dpc,         \* "input" or "done"
    frame,       \* the string given to from_str
    decoded,     \* the Result that from_str returned
    \* --- ConfigBuilder (src/datastructures/config.rs) ---
    cpc,         \* "building" or "returned"
    cbuilder,    \* the ConfigBuilder value being threaded through
    lastSet,     \* history: per setter, the argument of its last call ({} if none)
    nsets,       \* history: number of setter calls made
    cresult      \* the Result that build() returned

vars == <<pc, client, params, ws_url, io, stdout, result,
          bpc, builder, lastArg, lastFeed, ncalls, built, dpc, frame, decoded,
          cpc, cbuilder, lastSet, nsets, cresult>>

sessionVars == <<pc, client, params, ws_url, io, stdout, result>>
builderVars == <<bpc, builder, lastArg, lastFeed, ncalls, built>>
decoderVars == <<dpc, frame, decoded>>
configVars == <<cpc, cbuilder, lastSet, nsets, cresult>>

(***************************************************************************)
(* Bounds                                                                  *)
(***************************************************************************)
\* frames the server delivers on one connection
MaxFrames == 3
\* setter calls made on one ConfigBuilder
MaxSets == 4
\* setter calls made on one builder
MaxCalls == 3
\* symbols in one channel list given to a setter
MaxSyms == 1
\* records in one inbound JSON array
MaxRecords == 2

None == "None"

(***************************************************************************)
(* FeedType and the Subscription builders                                  *)
(***************************************************************************)
FeedType == {"Stocks", "Crypto", "News", "Options", "Test"}

Channels == {"trades", "quotes", "bars", "updated_bars", "daily_bars", "orderbooks"}

Symbols == {"AAPL", "MSFT"}

RECURSIVE SeqsUpTo(_, _)
SeqsUpTo(S, n) ==
    IF n = 0 THEN {<<>>}
    ELSE LET shorter == SeqsUpTo(S, n - 1)
         IN  shorter \cup {Append(s, x) : s \in shorter, x \in S}

SymLists == SeqsUpTo(Symbols, MaxSyms)

\* <[&str]>::to_vec: a copy of the slice
to_vec(slice) == [i \in 1..Len(slice) |-> slice[i]]

SubscriptionRequestBuilder_new ==
    [trades |-> <<>>, quotes |-> <<>>, bars |-> <<>>,
     updated_bars |-> <<>>, daily_bars |-> <<>>, orderbooks |-> <<>>]

\* a setter that appends to the channel's list
SubscriptionRequestBuilder_trades_appending(self, trades) ==
    [self EXCEPT !.trades = self.trades \o to_vec(trades)]

SubscriptionRequestBuilder_trades(self, trades) ==
    [self EXCEPT !.trades = to_vec(trades)]

SubscriptionRequestBuilder_quotes(self, quotes) ==
    [self EXCEPT !.quotes = to_vec(quotes)]

SubscriptionRequestBuilder_bars(self, bars) ==
    [self EXCEPT !.bars = to_vec(bars)]

SubscriptionRequestBuilder_updated_bars(self, updated_bars) ==
    [self EXCEPT !.updated_bars = to_vec(updated_bars)]

SubscriptionRequestBuilder_daily_bars(self, daily_bars) ==
    [self EXCEPT !.daily_bars = to_vec(daily_bars)]

SubscriptionRequestBuilder_orderbooks(self, orderbooks) ==
    [self EXCEPT !.orderbooks = to_vec(orderbooks)]

SubscriptionRequestBuilder_build(self) ==
    [action |-> "subscribe",
     trades |-> self.trades,
     quotes |-> self.quotes,
     bars |-> self.bars,
     updated_bars |-> self.updated_bars,
     daily_bars |-> self.daily_bars,
     orderbooks |-> self.orderbooks]

SubscriptionParamsBuilder_new ==
    [feed_type |-> None, subscription_request |-> SubscriptionRequestBuilder_new]

SubscriptionParamsBuilder_feed_type(self, feed_type) ==
    [self EXCEPT !.feed_type = feed_type]

SubscriptionParamsBuilder_trades(self, trades) ==
    [self EXCEPT !.subscription_request =
                     SubscriptionRequestBuilder_trades(self.subscription_request, trades)]

SubscriptionParamsBuilder_quotes(self, quotes) ==
    [self EXCEPT !.subscription_request =
                     SubscriptionRequestBuilder_quotes(self.subscription_request, quotes)]

SubscriptionParamsBuilder_bars(self, bars) ==
    [self EXCEPT !.subscription_request =
                     SubscriptionRequestBuilder_bars(self.subscription_request, bars)]

SubscriptionParamsBuilder_updated_bars(self, updated_bars) ==
    [self EXCEPT !.subscription_request =
                     SubscriptionRequestBuilder_updated_bars(self.subscription_request, updated_bars)]

SubscriptionParamsBuilder_daily_bars(self, daily_bars) ==
    [self EXCEPT !.subscription_request =
                     SubscriptionRequestBuilder_daily_bars(self.subscription_request, daily_bars)]

SubscriptionParamsBuilder_orderbooks(self, orderbooks) ==
    [self EXCEPT !.subscription_request =
                     SubscriptionRequestBuilder_orderbooks(self.subscription_request, orderbooks)]

\* a build that falls back on a feed type when none was set
SubscriptionParamsBuilder_build_defaulting(self) ==
    [feed_type |-> IF self.feed_type = None THEN "Stocks" ELSE self.feed_type,
     subscription_request |-> SubscriptionRequestBuilder_build(self.subscription_request)]

\* Option::expect("FeedType is required") panics on None
SubscriptionParamsBuilder_build(self) ==
    IF self.feed_type = None
    THEN [panic |-> "FeedType is required"]
    ELSE [feed_type |-> self.feed_type,
          subscription_request |-> SubscriptionRequestBuilder_build(self.subscription_request)]

(***************************************************************************)
(* Endpoint resolution (src/alpaca.rs)                                     *)
(***************************************************************************)
\* get_ws_url has no arm for FeedType::Test: it has no value there
NoUrl == [scheme |-> "", host |-> "", path |-> ""]

Wss(host, path) == [scheme |-> "wss", host |-> host, path |-> path]

get_ws_url(feed_type, enable_real_trading) ==
    CASE feed_type = "Stocks" ->
            IF enable_real_trading
            THEN Wss("api.alpaca.markets", "/stream")
            ELSE Wss("stream.data.alpaca.markets", "/v2/test")
      [] feed_type = "Crypto" ->
            IF enable_real_trading
            THEN Wss("stream.data.alpaca.markets", "/v1beta3/crypto/us")
            ELSE Wss("stream.data.sandbox.alpaca.markets", "/v1beta3/crypto/us")
      [] feed_type = "News" ->
            IF enable_real_trading
            THEN Wss("stream.data.alpaca.markets", "/v1beta1/news")
            ELSE Wss("stream.data.sandbox.alpaca.markets", "/v1beta1/news")
      [] feed_type = "Options" ->
            IF enable_real_trading
            THEN Wss("stream.data.alpaca.markets", "/v1beta1/{feed}")
            ELSE Wss("stream.data.sandbox.alpaca.markets", "/v1beta1/{feed}")
      [] OTHER -> NoUrl

(***************************************************************************)
(* The client and its transport                                            *)
(***************************************************************************)
Configs ==
    {[alpaca_api_key |-> "KEY", alpaca_secret_key |-> "SECRET", enable_real_trading |-> b] :
        b \in BOOLEAN}

AlpacaClient_new(config) ==
    [base_url |-> IF config.enable_real_trading
                  THEN "https://api.alpaca.markets"
                  ELSE "https://paper-api.alpaca.markets",
     api_key |-> config.alpaca_api_key,
     secret_key |-> config.alpaca_secret_key,
     enable_real_trading |-> config.enable_real_trading]

\* the status of a protocol-switch acknowledgement
SwitchingProtocols == 101

StatusCodes == {SwitchingProtocols, 200, 404}

ConnectOutcomes == {[tag |-> "Err"]} \cup {[tag |-> "Ok", status |-> s] : s \in StatusCodes}

\* str::contains, on a text that is a sequence of words
contains(text, word) == \E i \in 1..Len(text) : text[i] = word

Texts ==
    { <<"success", "authenticated">>,
      <<"unauthorized">>,
      <<"error">>,
      <<"success", "error">>,
      <<"data">> }

Msg_Text(text) == [kind |-> "Text", text |-> text]
Msg_Binary(bin) == [kind |-> "Binary", bin |-> bin]
Msg_Ping == [kind |-> "Ping"]

Messages == {Msg_Text(t) : t \in Texts} \cup {Msg_Binary(<<"data">>), Msg_Ping}

\* what one poll of socket.next() can give: None, Some(Err) or Some(Ok(message))
PollNone == [tag |-> "None"]
PollErr == [tag |-> "Err"]
PollOk(m) == [tag |-> "Ok", msg |-> m]

Recvs(log) == SelectSeq(log, LAMBDA e : e.op = "recv")
Sends(log) == SelectSeq(log, LAMBDA e : e.op = "send")
Connects(log) == SelectSeq(log, LAMBDA e : e.op = "connect")
Delivered(log) == SelectSeq(log, LAMBDA e : e.op = "recv" /\ e.outcome.tag = "Ok")
StreamEnded(log) == \E i \in 1..Len(log) : log[i].op = "recv" /\ log[i].outcome.tag = "None"

\* the transport: a stream that ended delivers nothing more
PollOutcomes(log) ==
    IF StreamEnded(log) \/ Len(Delivered(log)) >= MaxFrames
    THEN {PollNone, PollErr}
    ELSE {PollNone, PollErr} \cup {PollOk(m) : m \in Messages}

\* json!({...}): a JSON object is the record of its fields
auth_message(self) ==
    [action |-> "authenticate",
     data |-> [key_id |-> self.api_key, secret_key |-> self.secret_key]]

subscribe_message ==
    [action |-> "subscribe", bars |-> <<"AAPL">>]

\* Message::Text(value.to_string()): a text frame whose text is that JSON document
Msg_Json(value) == [kind |-> "Text", json |-> value]

\* a rejection test that looks for "unauthorized" only
AuthRejected_unauthorized_only(text) == contains(text, "unauthorized")

\* the rejection test of the authentication response
AuthRejected(text) == contains(text, "unauthorized") \/ contains(text, "error")

\* an upgrade test that accepts every status below 400
UpgradeAcknowledged_below_400(status) == status < 400

UpgradeAcknowledged(status) == status = SwitchingProtocols

Err(e) == [tag |-> "Err", error |-> e]
Ok == [tag |-> "Ok"]
Pending == [tag |-> "Pending"]

(***************************************************************************)
(* Config and ConfigBuilder (src/datastructures/config.rs)                 *)
(***************************************************************************)
ConfigSetters == {"alpaca_api_key", "alpaca_secret_key", "enable_real_trading"}

\* the arguments callers give to each setter
ConfigArgs ==
    [alpaca_api_key |-> {"KEY", "KEY2"},
     alpaca_secret_key |-> {"SECRET", "SECRET2"},
     enable_real_trading |-> BOOLEAN]

\* #[derive(Default)]: both options None, the flag false
ConfigBuilder_default ==
    [alpaca_api_key |-> None, alpaca_secret_key |-> None, enable_real_trading |-> FALSE]

ConfigBuilder_alpaca_api_key(self, alpaca_api_key) ==
    [self EXCEPT !.alpaca_api_key = alpaca_api_key]

ConfigBuilder_alpaca_secret_key(self, alpaca_secret_key) ==
    [self EXCEPT !.alpaca_secret_key = alpaca_secret_key]

ConfigBuilder_enable_real_trading(self, enable_real_trading) ==
    [self EXCEPT !.enable_real_trading = enable_real_trading]

ResultOk(value) == [tag |-> "Ok", value |-> value]

\* a build that looks at the secret key before the API key
ConfigBuilder_build_secret_first(self) ==
    IF self.alpaca_secret_key = None THEN Err("Secret key must be set")
    ELSE IF self.alpaca_api_key = None THEN Err("API key must be set")
    ELSE ResultOk([alpaca_api_key |-> self.alpaca_api_key,
                   alpaca_secret_key |-> self.alpaca_secret_key,
                   enable_real_trading |-> self.enable_real_trading])

\* the fields are evaluated in order; each ? returns the first error met
ConfigBuilder_build(self) ==
    IF self.alpaca_api_key = None THEN Err("API key must be set")
    ELSE IF self.alpaca_secret_key = None THEN Err("Secret key must be set")
    ELSE ResultOk([alpaca_api_key |-> self.alpaca_api_key,
                   alpaca_secret_key |-> self.alpaca_secret_key,
                   enable_real_trading |-> self.enable_real_trading])

(***************************************************************************)
(* Idle values of the components a specification does not exercise         *)
(***************************************************************************)
SessionIdle ==
    /\ pc = "idle"
    /\ client = AlpacaClient_new(CHOOSE c \in Configs : ~c.enable_real_trading)
    /\ params = None
    /\ ws_url = NoUrl
    /\ io = <<>>
    /\ stdout = <<>>
    /\ result = Pending

BuilderIdle ==
    /\ bpc = "idle"
    /\ builder = SubscriptionParamsBuilder_new
    /\ lastArg = [c \in Channels |-> {}]
    /\ lastFeed = {}
    /\ ncalls = 0
    /\ built = None

DecoderIdle ==
    /\ dpc = "idle"
    /\ frame = None
    /\ decoded = None

ConfigIdle ==
    /\ cpc = "idle"
    /\ cbuilder = ConfigBuilder_default
    /\ lastSet = [m \in ConfigSetters |-> {}]
    /\ nsets = 0
    /\ cresult = None

(***************************************************************************)
(* AlpacaClient::subscribe, one action per suspension point                *)
(***************************************************************************)
\* the requests callers hand to subscribe, each built with the builders
CallerParams ==
    { SubscriptionParamsBuilder_build(
          SubscriptionParamsBuilder_trades(
              SubscriptionParamsBuilder_feed_type(SubscriptionParamsBuilder_new, f),
              <<"AAPL">>)) : f \in FeedType }
    \cup
    { SubscriptionParamsBuilder_build(
          SubscriptionParamsBuilder_bars(
              SubscriptionParamsBuilder_feed_type(SubscriptionParamsBuilder_new, f),
              <<"AAPL">>)) : f \in {"Stocks", "Crypto"} }

SessionInit ==
    /\ pc = "start"
    /\ client \in {AlpacaClient_new(c) : c \in Configs}
    /\ params \in CallerParams
    /\ ws_url = NoUrl
    /\ io = <<>>
    /\ stdout = <<>>
    /\ result = Pending

\* let ws_url = get_ws_url(feed_type, self.enable_real_trading); Url::parse(ws_url)?
Resolve ==
    /\ pc = "start"
    /\ ws_url' = get_ws_url(params.feed_type, client.enable_real_trading)
    /\ pc' = IF ws_url' = NoUrl THEN "undefined" ELSE "connect"
    /\ UNCHANGED <<client, params, io, stdout, result>>
    /\ UNCHANGED <<builderVars, decoderVars, configVars>>

\* connect_async(url).await? and the check of response.status()
Connect ==
    /\ pc = "connect"
    /\ \E outcome \in ConnectOutcomes :
          /\ io' = Append(io, [op |-> "connect", url |-> ws_url, outcome |-> outcome])
          /\ IF outcome.tag = "Err"
             THEN /\ pc' = "failed"
                  /\ result' = Err("connect")
                  /\ UNCHANGED stdout
             ELSE IF ~UpgradeAcknowledged(outcome.status)
             THEN /\ pc' = "failed"
                  /\ result' = Err("Connection failed with non-101 status code")
                  /\ stdout' = Append(stdout, [line |-> "Failed to connect, status code",
                                               arg |-> outcome.status])
             ELSE /\ pc' = "send_auth"
                  /\ UNCHANGED result
                  /\ stdout' = Append(stdout, [line |-> "Connected to the server",
                                               arg |-> outcome.status])
    /\ UNCHANGED <<client, params, ws_url>>
    /\ UNCHANGED <<builderVars, decoderVars, configVars>>

\* a subscribe that waits for the authentication response without having sent the request
SendAuth_not_sent ==
    /\ pc = "send_auth"
    /\ pc' = "auth_wait"
    /\ UNCHANGED <<client, params, ws_url, io, stdout, result>>
    /\ UNCHANGED <<builderVars, decoderVars, configVars>>

\* a send of the authentication request whose failure is not propagated
SendAuth_ignoring_failure ==
    /\ pc = "send_auth"
    /\ \E ok \in BOOLEAN :
          io' = Append(io, [op |-> "send", msg |-> Msg_Json(auth_message(client)), ok |-> ok])
    /\ pc' = "auth_wait"
    /\ UNCHANGED <<client, params, ws_url, stdout, result>>
    /\ UNCHANGED <<builderVars, decoderVars, configVars>>

\* socket.send(Message::Text(auth_message.to_string())).await?
SendAuth ==
    /\ pc = "send_auth"
    /\ \E ok \in BOOLEAN :
          /\ io' = Append(io, [op |-> "send", msg |-> Msg_Json(auth_message(client)), ok |-> ok])
          /\ pc' = IF ok THEN "auth_wait" ELSE "failed"
          /\ result' = IF ok THEN result ELSE Err("send")
    /\ UNCHANGED <<client, params, ws_url, stdout>>
    /\ UNCHANGED <<builderVars, decoderVars, configVars>>

\* if let Some(message) = socket.next().await { match message? { ... } }
AuthWait ==
    /\ pc = "auth_wait"
    /\ \E polled \in PollOutcomes(io) :
          /\ io' = Append(io, [op |-> "recv", by |-> "auth", outcome |-> polled])
          /\ CASE polled.tag = "None" ->
                    /\ pc' = "send_subscribe"
                    /\ UNCHANGED <<stdout, result>>
               [] polled.tag = "Err" ->
                    /\ pc' = "failed"
                    /\ result' = Err("transport")
                    /\ UNCHANGED stdout
               [] polled.tag = "Ok" /\ polled.msg.kind = "Text" ->
                    /\ stdout' = Append(stdout, [line |-> "Authentication response",
                                                 arg |-> polled.msg.text])
                    /\ IF AuthRejected(polled.msg.text)
                       THEN /\ pc' = "failed"
                            /\ result' = Err("Authentication failed")
                       ELSE /\ pc' = "send_subscribe"
                            /\ UNCHANGED result
               [] OTHER ->
                    /\ pc' = "send_subscribe"
                    /\ UNCHANGED <<stdout, result>>
    /\ UNCHANGED <<client, params, ws_url>>
    /\ UNCHANGED <<builderVars, decoderVars, configVars>>

\* a subscribe that enters the read loop without sending the subscription
SendSubscribe_not_sent ==
    /\ pc = "send_subscribe"
    /\ pc' = "loop"
    /\ UNCHANGED <<client, params, ws_url, io, stdout, result>>
    /\ UNCHANGED <<builderVars, decoderVars, configVars>>

\* to_string_pretty, the two println! and socket.send(Message::Text(subscribe_message...)).await?
SendSubscribe ==
    /\ pc = "send_subscribe"
    /\ \E ok \in BOOLEAN :
          /\ stdout' = stdout \o << [line |-> "Serialized JSON", arg |-> subscribe_message],
                                    [line |-> "Serialized JSON", arg |-> subscribe_message] >>
          /\ io' = Append(io, [op |-> "send", msg |-> Msg_Json(subscribe_message), ok |-> ok])
          /\ pc' = IF ok THEN "loop" ELSE "failed"
          /\ result' = IF ok THEN result ELSE Err("send")
    /\ UNCHANGED <<client, params, ws_url>>
    /\ UNCHANGED <<builderVars, decoderVars, configVars>>

\* a read loop that connects again when the stream ends
LoopRead_reconnecting ==
    /\ pc = "loop"
    /\ \E polled \in PollOutcomes(io) :
          /\ io' = Append(io, [op |-> "recv", by |-> "loop", outcome |-> polled])
          /\ CASE polled.tag = "None" ->
                    /\ pc' = "connect"
                    /\ UNCHANGED <<stdout, result>>
               [] polled.tag = "Err" ->
                    /\ pc' = "failed"
                    /\ result' = Err("transport")
                    /\ UNCHANGED stdout
               [] polled.tag = "Ok" /\ polled.msg.kind = "Text" ->
                    /\ stdout' = Append(stdout, [line |-> "Received", arg |-> polled.msg.text])
                    /\ UNCHANGED <<pc, result>>
               [] polled.tag = "Ok" /\ polled.msg.kind = "Binary" ->
                    /\ stdout' = Append(stdout, [line |-> "Received binary data",
                                                 arg |-> polled.msg.bin])
                    /\ UNCHANGED <<pc, result>>
               [] OTHER ->
                    /\ UNCHANGED <<pc, result, stdout>>
    /\ UNCHANGED <<client, params, ws_url>>
    /\ UNCHANGED <<builderVars, decoderVars, configVars>>

\* one turn of: while let Some(message) = socket.next().await { let msg = message?; ... }
LoopRead ==
    /\ pc = "loop"
    /\ \E polled \in PollOutcomes(io) :
          /\ io' = Append(io, [op |-> "recv", by |-> "loop", outcome |-> polled])
          /\ CASE polled.tag = "None" ->
                    /\ pc' = "done"
                    /\ result' = Ok
                    /\ UNCHANGED stdout
               [] polled.tag = "Err" ->
                    /\ pc' = "failed"
                    /\ result' = Err("transport")
                    /\ UNCHANGED stdout
               [] polled.tag = "Ok" /\ polled.msg.kind = "Text" ->
                    /\ stdout' = Append(stdout, [line |-> "Received", arg |-> polled.msg.text])
                    /\ UNCHANGED <<pc, result>>
               [] polled.tag = "Ok" /\ polled.msg.kind = "Binary" ->
                    /\ stdout' = Append(stdout, [line |-> "Received binary data",
                                                 arg |-> polled.msg.bin])
                    /\ UNCHANGED <<pc, result>>
               [] OTHER ->
                    /\ UNCHANGED <<pc, result, stdout>>
    /\ UNCHANGED <<client, params, ws_url>>
    /\ UNCHANGED <<builderVars, decoderVars, configVars>>

Init ==
    /\ SessionInit
    /\ BuilderIdle
    /\ DecoderIdle
    /\ ConfigIdle

Next ==
    \/ Resolve
    \/ Connect
    \/ SendAuth
    \/ AuthWait
    \/ SendSubscribe
    \/ LoopRead

Spec == Init /\ [][Next]_vars

(***************************************************************************)
(* The Subscription builders driven by a caller                            *)
(***************************************************************************)
BuilderInit ==
    /\ bpc = "building"
    /\ builder = SubscriptionParamsBuilder_new
    /\ lastArg = [c \in Channels |-> {}]
    /\ lastFeed = {}
    /\ ncalls = 0
    /\ built = None

\* a channel setter may be called while the builder has not been consumed
CanSet == bpc = "building" /\ ncalls < MaxCalls

Called(channel, list) ==
    /\ lastArg' = [lastArg EXCEPT ![channel] = {list}]
    /\ ncalls' = ncalls + 1
    /\ UNCHANGED <<bpc, built, lastFeed>>
    /\ UNCHANGED <<sessionVars, decoderVars, configVars>>

CallFeedType ==
    /\ bpc = "building"
    /\ \E f \in FeedType :
          /\ builder' = SubscriptionParamsBuilder_feed_type(builder, f)
          /\ lastFeed' = {f}
    /\ UNCHANGED <<bpc, lastArg, ncalls, built>>
    /\ UNCHANGED <<sessionVars, decoderVars, configVars>>

CallTrades ==
    /\ CanSet
    /\ \E list \in SymLists :
          /\ builder' = SubscriptionParamsBuilder_trades(builder, list)
          /\ Called("trades", list)

CallQuotes ==
    /\ CanSet
    /\ \E list \in SymLists :
          /\ builder' = SubscriptionParamsBuilder_quotes(builder, list)
          /\ Called("quotes", list)

CallBars ==
    /\ CanSet
    /\ \E list \in SymLists :
          /\ builder' = SubscriptionParamsBuilder_bars(builder, list)
          /\ Called("bars", list)

CallUpdatedBars ==
    /\ CanSet
    /\ \E list \in SymLists :
          /\ builder' = SubscriptionParamsBuilder_updated_bars(builder, list)
          /\ Called("updated_bars", list)

CallDailyBars ==
    /\ CanSet
    /\ \E list \in SymLists :
          /\ builder' = SubscriptionParamsBuilder_daily_bars(builder, list)
          /\ Called("daily_bars", list)

CallOrderbooks ==
    /\ CanSet
    /\ \E list \in SymLists :
          /\ builder' = SubscriptionParamsBuilder_orderbooks(builder, list)
          /\ Called("orderbooks", list)

\* build(self) consumes the builder; expect() panics when no feed type was set
CallBuild ==
    /\ bpc = "building"
    /\ built' = SubscriptionParamsBuilder_build(builder)
    /\ bpc' = IF "panic" \in DOMAIN built' THEN "panicked" ELSE "built"
    /\ UNCHANGED <<builder, lastArg, lastFeed, ncalls>>
    /\ UNCHANGED <<sessionVars, decoderVars, configVars>>

BuilderSpecInit ==
    /\ SessionIdle
    /\ BuilderInit
    /\ DecoderIdle
    /\ ConfigIdle

BuilderNext ==
    \/ CallFeedType
    \/ CallTrades
    \/ CallQuotes
    \/ CallBars
    \/ CallUpdatedBars
    \/ CallDailyBars
    \/ CallOrderbooks
    \/ CallBuild

SpecBuilder == BuilderSpecInit /\ [][BuilderNext]_vars

(***************************************************************************)
(* EventType::from_str (src/datastructures/event.rs)                       *)
(*                                                                         *)
(* A JSON document is either not an array of objects, or the sequence of   *)
(* its objects; an object is the function from the keys it has to their    *)
(* values.  An optional key is given as a set of at most one value.        *)
(***************************************************************************)
\* the feed's key for the ask size is "as"; RawEvent names its field as_ and does not
\* rename it, so it reads the key "as_"
JsonObject(T, S, bp, ask, v) ==
    LET keys == {"t"} \cup (IF T = {} THEN {} ELSE {"T"})
                      \cup (IF S = {} THEN {} ELSE {"S"})
                      \cup (IF bp = {} THEN {} ELSE {"bp"})
                      \cup (IF ask = {} THEN {} ELSE {"as"})
                      \cup (IF v = {} THEN {} ELSE {"v"})
    IN  [k \in keys |->
            CASE k = "T" -> CHOOSE x \in T : TRUE
              [] k = "S" -> CHOOSE x \in S : TRUE
              [] k = "bp" -> CHOOSE x \in bp : TRUE
              [] k = "as" -> CHOOSE x \in ask : TRUE
              [] k = "v" -> CHOOSE x \in v : TRUE
              [] OTHER -> "2024-01-01T00:00:00Z"]

JsonObjects ==
    { JsonObject(T, S, bp, ask, v) :
        T \in {{}, {"q"}, {"b"}, {"x"}},
        S \in {{}, {"AAPL"}},
        bp \in {{}, {100}},
        ask \in {{}, {3}},
        v \in {{}, {7}} }

NotAnArray == [array |-> FALSE, records |-> <<>>]
JsonArray(records) == [array |-> TRUE, records |-> records]

Frames == {NotAnArray} \cup {JsonArray(rs) : rs \in SeqsUpTo(JsonObjects, MaxRecords)}

\* the keys RawEvent requires: its fields that are not Option
RequiredKeys == {"T", "S", "t"}

\* serde's derived Deserialize for RawEvent accepts the object
Deserializes(object) == RequiredKeys \subseteq DOMAIN object

\* Option<_>::unwrap_or_default() of an optional numeric field
unwrap_or_default(object, key) == IF key \in DOMAIN object THEN object[key] ELSE 0

\* f64 as u64: saturating at 0
as_u64(x) == IF x < 0 THEN 0 ELSE x

OkOf(value) == [tag |-> "Ok", value |-> value]

\* a match on event.T that takes every discriminator other than "b" for a quote
EventOf_guessing(event) ==
    IF event["T"] = "b"
    THEN OkOf([variant |-> "Bar",
               symbol |-> event["S"],
               open |-> unwrap_or_default(event, "o"),
               high |-> unwrap_or_default(event, "h"),
               low |-> unwrap_or_default(event, "l"),
               close |-> unwrap_or_default(event, "c"),
               volume |-> unwrap_or_default(event, "v"),
               timestamp |-> event["t"]])
    ELSE OkOf([variant |-> "Quote",
               symbol |-> event["S"],
               bid_price |-> unwrap_or_default(event, "bp"),
               ask_price |-> unwrap_or_default(event, "ap"),
               bid_size |-> as_u64(unwrap_or_default(event, "bs")),
               ask_size |-> as_u64(unwrap_or_default(event, "as_")),
               timestamp |-> event["t"]])

\* the match on event.T
EventOf(event) ==
    CASE event["T"] = "q" ->
            OkOf([variant |-> "Quote",
                  symbol |-> event["S"],
                  bid_price |-> unwrap_or_default(event, "bp"),
                  ask_price |-> unwrap_or_default(event, "ap"),
                  bid_size |-> as_u64(unwrap_or_default(event, "bs")),
                  ask_size |-> as_u64(unwrap_or_default(event, "as_")),
                  timestamp |-> event["t"]])
      [] event["T"] = "b" ->
            OkOf([variant |-> "Bar",
                  symbol |-> event["S"],
                  open |-> unwrap_or_default(event, "o"),
                  high |-> unwrap_or_default(event, "h"),
                  low |-> unwrap_or_default(event, "l"),
                  close |-> unwrap_or_default(event, "c"),
                  volume |-> unwrap_or_default(event, "v"),
                  timestamp |-> event["t"]])
      [] OTHER -> Err("Unknown event type")

from_str(s) ==
    IF ~s.array \/ \E i \in 1..Len(s.records) : ~Deserializes(s.records[i])
    THEN Err("serde_json")
    ELSE IF s.records = <<>>
    THEN Err("Empty event list")
    ELSE EventOf(s.records[1])

DecoderInit ==
    /\ dpc = "input"
    /\ frame \in Frames
    /\ decoded = None

Decode ==
    /\ dpc = "input"
    /\ decoded' = from_str(frame)
    /\ dpc' = "done"
    /\ UNCHANGED frame
    /\ UNCHANGED <<sessionVars, builderVars, configVars>>

DecoderSpecInit ==
    /\ SessionIdle
    /\ BuilderIdle
    /\ DecoderInit
    /\ ConfigIdle

DecoderNext == Decode

SpecDecoder == DecoderSpecInit /\ [][DecoderNext]_vars

(***************************************************************************)
(* ConfigBuilder, one action per method call                               *)
(***************************************************************************)
\* Config::builder()
ConfigInit ==
    /\ cpc = "building"
    /\ cbuilder = ConfigBuilder_default
    /\ lastSet = [m \in ConfigSetters |-> {}]
    /\ nsets = 0
    /\ cresult = None

\* a setter can be called while the builder has not been consumed by build()
CanSetConfig == cpc = "building" /\ nsets < MaxSets

ConfigSet(setter, arg) ==
    /\ lastSet' = [lastSet EXCEPT ![setter] = {arg}]
    /\ nsets' = nsets + 1
    /\ UNCHANGED <<cpc, cresult>>

CallAlpacaApiKey ==
    /\ CanSetConfig
    /\ \E k \in ConfigArgs.alpaca_api_key :
          /\ cbuilder' = ConfigBuilder_alpaca_api_key(cbuilder, k)
          /\ ConfigSet("alpaca_api_key", k)
    /\ UNCHANGED <<sessionVars, builderVars, decoderVars>>

CallAlpacaSecretKey ==
    /\ CanSetConfig
    /\ \E k \in ConfigArgs.alpaca_secret_key :
          /\ cbuilder' = ConfigBuilder_alpaca_secret_key(cbuilder, k)
          /\ ConfigSet("alpaca_secret_key", k)
    /\ UNCHANGED <<sessionVars, builderVars, decoderVars>>

CallEnableRealTrading ==
    /\ CanSetConfig
    /\ \E b \in ConfigArgs.enable_real_trading :
          /\ cbuilder' = ConfigBuilder_enable_real_trading(cbuilder, b)
          /\ ConfigSet("enable_real_trading", b)
    /\ UNCHANGED <<sessionVars, builderVars, decoderVars>>

\* build(self) consumes the builder and returns the Result
CallConfigBuild ==
    /\ cpc = "building"
    /\ cresult' = ConfigBuilder_build(cbuilder)
    /\ cpc' = "returned"
    /\ UNCHANGED <<cbuilder, lastSet, nsets>>
    /\ UNCHANGED <<sessionVars, builderVars, decoderVars>>

ConfigSpecInit ==
    /\ SessionIdle
    /\ BuilderIdle
    /\ DecoderIdle
    /\ ConfigInit

ConfigNext ==
    \/ CallAlpacaApiKey
    \/ CallAlpacaSecretKey
    \/ CallEnableRealTrading
    \/ CallConfigBuild

SpecConfig == ConfigSpecInit /\ [][ConfigNext]_vars

(***************************************************************************)
(* Properties of the handshake (specification Spec)                        *)
(***************************************************************************)
IsSubscribeSend(e) == e.op = "send" /\ e.msg.json.action = "subscribe"
IsAuthSend(e) == e.op = "send" /\ e.msg.json.action = "authenticate"

SubscribeSends == SelectSeq(io, IsSubscribeSend)

\* the outcome of the first poll after the auth request, once it was made
FirstPolled == Recvs(io)[1].outcome
HasPolled == Len(Recvs(io)) >= 1

HasRejectMarker(text) == contains(text, "unauthorized") \/ contains(text, "error")
HasSuccessMarker(text) == contains(text, "success") \/ contains(text, "authenticated")

FirstIsText == HasPolled /\ FirstPolled.tag = "Ok" /\ FirstPolled.msg.kind = "Text"

\* the first message classifies neither as a rejection nor as a success, or the
\* connection closed before any message
FirstIsAmbiguous ==
    /\ HasPolled
    /\ \/ FirstPolled.tag = "None"
       \/ FirstPolled.tag = "Ok" /\ FirstPolled.msg.kind # "Text"
       \/ /\ FirstIsText
          /\ ~HasRejectMarker(FirstPolled.msg.text)
          /\ ~HasSuccessMarker(FirstPolled.msg.text)

FirstIsRejection == FirstIsText /\ HasRejectMarker(FirstPolled.msg.text)

FirstIsSuccess == FirstIsText /\ HasSuccessMarker(FirstPolled.msg.text)

\* subscribe returned an error and sent no subscription message
FailedWithoutSubscribing ==
    /\ pc = "failed"
    /\ result.tag = "Err"
    /\ SubscribeSends = <<>>

\* C1: when the first inbound message after the auth request is neither a rejection
\* nor a success text (an unrelated text, a binary or control frame), or the
\* connection closes before any message, subscribe fails: it returns an error, never
\* reaches Ready and sends no subscription message.
C1_AmbiguousAuthIsFatal == FirstIsAmbiguous => FailedWithoutSubscribing

\* C2: when the first inbound message is a text containing "unauthorized" or "error",
\* subscribe returns the error "Authentication failed" and no subscription message is
\* ever sent on the connection.
C2_RejectionIsFatal ==
    FirstIsRejection =>
        /\ FailedWithoutSubscribing
        /\ result = Err("Authentication failed")

C2_Witness ==
    /\ FirstIsText
    /\ FirstPolled.msg.text = <<"error">>
    /\ pc = "failed"
    /\ Len(io) = 3

ConnectAttempted == Len(Connects(io)) >= 1
ConnectOutcome == Connects(io)[1].outcome
ConnectRefused ==
    /\ ConnectAttempted
    /\ \/ ConnectOutcome.tag = "Err"
       \/ ConnectOutcome.tag = "Ok" /\ ConnectOutcome.status # SwitchingProtocols

\* C3: when the connect attempt fails or its response status is not 101, subscribe
\* returns an error, and neither the auth message nor the subscription message is
\* sent (nothing is sent or read on the transport at all).
C3_NoUpgradeIsFatal ==
    ConnectRefused =>
        /\ pc = "failed"
        /\ result.tag = "Err"
        /\ Sends(io) = <<>>
        /\ Recvs(io) = <<>>

C3_Witness ==
    /\ ConnectAttempted
    /\ ConnectOutcome.tag = "Ok"
    /\ ConnectOutcome.status = 200
    /\ result = Err("Connection failed with non-101 status code")

\* the handshake went on to Ready, the subscription message was sent exactly once as
\* soon as the send step ran, and no frame was read or printed by the read loop
\* before that send
ReadyWithOneSubscribe ==
    /\ pc \in {"send_subscribe", "loop", "done", "failed"}
    /\ result # Err("Authentication failed")
    /\ Len(SubscribeSends) = IF pc = "send_subscribe" THEN 0 ELSE 1
    /\ \A i \in 1..Len(io) :
          (io[i].op = "recv" /\ io[i].by = "loop") =>
              \E j \in 1..(i - 1) : IsSubscribeSend(io[j])
    /\ \A k \in 1..Len(stdout) :
          stdout[k].line \in {"Received", "Received binary data"} => Len(SubscribeSends) = 1

\* C4 as stated: whenever the first inbound message contains a success marker, the
\* state becomes Ready and exactly one subscription message is sent, before any
\* inbound frame is read by the loop, and never a second one.
C4_SuccessMarkerGivesReady == FirstIsSuccess => ReadyWithOneSubscribe

\* C4 as amended: the same, for a first message that contains a success marker and
\* neither "unauthorized" nor "error".
C4_SuccessWithoutRejectGivesReady ==
    (FirstIsSuccess /\ ~FirstIsRejection) => ReadyWithOneSubscribe

C4_Witness ==
    /\ FirstIsSuccess
    /\ ~FirstIsRejection
    /\ pc = "loop"
    /\ Len(SubscribeSends) = 1
    /\ \E i \in 1..Len(io) : io[i].op = "recv" /\ io[i].by = "loop" /\ io[i].outcome.tag = "Ok"

\* a frame that carries data, not a handshake answer: a binary frame, or a text with
\* no rejection or success marker
IsDataFrame(m) ==
    \/ m.kind = "Binary"
    \/ m.kind = "Text" /\ ~HasRejectMarker(m.text) /\ ~HasSuccessMarker(m.text)

\* the handshake treated what it read as the acknowledgement
TreatedAsAcknowledged ==
    \/ pc \in {"send_subscribe", "loop", "done"}
    \/ SubscribeSends # <<>>

\* C5: the Authenticating phase consumes at most one inbound message, a data frame is
\* never consumed as if it were the handshake acknowledgement, and every frame
\* delivered after the classifying one is read by the read loop.
C5_NoDataFrameTakenAsAck ==
    /\ Len(SelectSeq(io, LAMBDA e : e.op = "recv" /\ e.by = "auth")) <= 1
    /\ \A i \in 1..Len(io) :
          (io[i].op = "recv" /\ io[i].by = "auth" /\ io[i].outcome.tag = "Ok"
              /\ IsDataFrame(io[i].outcome.msg)) => ~TreatedAsAcknowledged
    /\ \A i \in 2..Len(Recvs(io)) : Recvs(io)[i].by = "loop"

\* the list a JSON subscription message carries for a channel (none if the key is absent)
ChannelList(json, channel) == IF channel \in DOMAIN json THEN json[channel] ELSE <<>>

\* C6: the subscription message subscribe sends after a handshake that a success
\* text acknowledged is the caller's SubscriptionRequest: its action is "subscribe"
\* and each of its six channel lists equals the caller's.
C6_SendsCallersRequest ==
    (FirstIsSuccess /\ ~FirstIsRejection) =>
        \A i \in 1..Len(SubscribeSends) :
            LET json == SubscribeSends[i].msg.json
            IN  SubscribeSends[i].ok =>
                    /\ json.action = params.subscription_request.action
                    /\ \A c \in Channels :
                          ChannelList(json, c) = params.subscription_request[c]

(***************************************************************************)
(* Properties of the endpoint resolver (specification Spec)                *)
(***************************************************************************)
Resolved == pc # "start"

\* C8: get_ws_url is total and deterministic: for every FeedType and trading mode the
\* URL subscribe resolves is defined and non-empty, and is the one the same input
\* always gives.
C8_ResolverTotal ==
    Resolved =>
        /\ ws_url # NoUrl
        /\ ws_url.scheme # "" /\ ws_url.host # ""
        /\ ws_url = get_ws_url(params.feed_type, client.enable_real_trading)

ProductionHost == "stream.data.alpaca.markets"
SandboxHost == "stream.data.sandbox.alpaca.markets"

\* C9: for Stocks and Test the resolved URL is the one the other trading mode gives
\* too; for Crypto, News and Options it is on the production host in live mode and on
\* the sandbox host, with a different URL, in paper mode.
C9_ModeSelectsHost ==
    Resolved =>
        LET live == client.enable_real_trading
            other == get_ws_url(params.feed_type, ~live)
        IN  /\ params.feed_type \in {"Stocks", "Test"} => ws_url = other
            /\ params.feed_type \in {"Crypto", "News", "Options"} =>
                  /\ ws_url # other
                  /\ ws_url.host = IF live THEN ProductionHost ELSE SandboxHost

(***************************************************************************)
(* Properties of the decoder (specification SpecDecoder)                   *)
(***************************************************************************)
\* what decoding one record on its own gives
RecordOutcome(object) ==
    IF Deserializes(object) THEN EventOf(object) ELSE Err("serde_json")

\* the outcomes from_str yields: the one Result it returns
Outcomes(returned) == <<returned>>

\* C7: decoding an array of n >= 1 records yields n outcomes in record order, each
\* the outcome of decoding that record on its own: a record with an unknown
\* discriminator or a missing required field gives an error for that record only.
C7_OneOutcomePerRecord ==
    (dpc = "done" /\ frame.array /\ Len(frame.records) >= 1) =>
        Outcomes(decoded) = [i \in 1..Len(frame.records) |-> RecordOutcome(frame.records[i])]

(***************************************************************************)
(* Properties of the Subscription builders (specification SpecBuilder)     *)
(***************************************************************************)
\* the list the calls made so far should leave in a channel
LastGiven(channel) ==
    IF lastArg[channel] = {} THEN <<>> ELSE CHOOSE list \in lastArg[channel] : TRUE

IsRequestOfCalls(request) ==
    /\ request.action = "subscribe"
    /\ \A c \in Channels : request[c] = LastGiven(c)

\* C10: after any sequence of setter calls from new(), build() yields a request with
\* action "subscribe" whose every channel list is the argument of the last call of
\* that channel's setter, or empty if it was never called; this holds of the request
\* builder at every point and of the params that SubscriptionParamsBuilder::build
\* returned.
C10_BuildGivesLastArguments ==
    bpc # "idle" =>
        /\ IsRequestOfCalls(SubscriptionRequestBuilder_build(builder.subscription_request))
        /\ bpc = "built" => IsRequestOfCalls(built.subscription_request)

\* trades was called twice, last with ["AAPL"], no other channel setter was called,
\* and build() returned trades = ["AAPL"] with every other list empty
C10_Witness ==
    /\ bpc = "built"
    /\ ncalls = 2
    /\ lastArg = [c \in Channels |-> IF c = "trades" THEN {<<"AAPL">>} ELSE {}]
    /\ built.subscription_request.trades = <<"AAPL">>
    /\ \A c \in Channels \ {"trades"} : built.subscription_request[c] = <<>>

(***************************************************************************)
(* Properties of the read loop (specification Spec)                        *)
(***************************************************************************)
IsLoopFrame(e) == e.op = "recv" /\ e.by = "loop" /\ e.outcome.tag = "Ok"
IsPayloadFrame(e) == IsLoopFrame(e) /\ e.outcome.msg.kind \in {"Text", "Binary"}

\* the text and binary frames the read loop has read, in arrival order
PayloadFrames == SelectSeq(io, IsPayloadFrame)

\* the payload a text or binary frame carries
Payload(m) == IF m.kind = "Text" THEN m.text ELSE m.bin

\* the lines the read loop has printed, in order
LoopLines == SelectSeq(stdout, LAMBDA l : l.line \in {"Received", "Received binary data"})

\* the handshake was acknowledged by a success text: the session is Ready
Acknowledged == FirstIsSuccess /\ ~FirstIsRejection

\* the decode outcomes the value subscribe returned hands to its caller
EventsOf(returned) == IF "events" \in DOMAIN returned THEN returned.events ELSE <<>>

\* C12: after Ready the session exposes to the caller one decode outcome per inbound
\* text or binary frame, in arrival order; control frames add nothing to the sequence
\* and do not end it.
C12_OneOutcomePerFrame ==
    Acknowledged =>
        /\ Len(LoopLines) = Len(PayloadFrames)
        /\ \A k \in 1..Len(PayloadFrames) :
              LoopLines[k].arg = Payload(PayloadFrames[k].outcome.msg)
        /\ (io # <<>> /\ IsLoopFrame(io[Len(io)])) => pc = "loop"
        /\ Len(EventsOf(result)) = Len(PayloadFrames)

\* C13: in the read loop a text frame and a binary frame with the same payload are
\* handled alike and give the same outcome, and after a frame has been handled the
\* loop goes on: the connection is not closed and later frames are still read.
C13_TextAndBinaryAlike ==
    Acknowledged =>
        /\ Len(LoopLines) = Len(PayloadFrames)
        /\ \A i, j \in 1..Len(PayloadFrames) :
              Payload(PayloadFrames[i].outcome.msg) = Payload(PayloadFrames[j].outcome.msg)
                  => LoopLines[i] = LoopLines[j]
        /\ (io # <<>> /\ IsPayloadFrame(io[Len(io)])) => pc = "loop"

(***************************************************************************)
(* Properties of what from_str returns (specification SpecDecoder)         *)
(***************************************************************************)
\* the frame is an array of at least one record and serde accepts every record
Deserialized ==
    /\ frame.array
    /\ Len(frame.records) >= 1
    /\ \A i \in 1..Len(frame.records) : Deserializes(frame.records[i])

\* the record from_str decodes
FirstRecord == frame.records[1]

\* C14: from_str always returns a value: an empty array gives the error "Empty event
\* list", a record whose discriminator is neither "q" nor "b" gives the error "Unknown
\* event type", and an event is only ever made of a record whose discriminator is
\* "q" (a Quote) or "b" (a Bar), never of another one.
C14_ErrorsAreValues ==
    dpc = "done" =>
        /\ decoded.tag \in {"Ok", "Err"}
        /\ frame = JsonArray(<<>>) => decoded = Err("Empty event list")
        /\ (Deserialized /\ FirstRecord["T"] \notin {"q", "b"}) =>
              decoded = Err("Unknown event type")
        /\ decoded.tag = "Ok" =>
              /\ Deserialized
              /\ \/ FirstRecord["T"] = "q" /\ decoded.value.variant = "Quote"
                 \/ FirstRecord["T"] = "b" /\ decoded.value.variant = "Bar"

C14_Witness ==
    /\ dpc = "done"
    /\ frame = JsonArray(<<JsonObject({"x"}, {"AAPL"}, {}, {}, {})>>)
    /\ decoded = Err("Unknown event type")

\* the value a record carries on the wire under a key, 0 when the key is absent
WireValue(object, key) == IF key \in DOMAIN object THEN object[key] ELSE 0

\* C15: a record with discriminator "q" decodes to a Quote and one with "b" to a Bar
\* with the record's symbol and timestamp, and every numeric field of the event is
\* the record's value for it (bp, ap, bs, as; o, h, l, c, v) when present and 0 when
\* absent; an absent numeric field never fails the record.
C15_FieldsAreTheRecords ==
    (dpc = "done" /\ Deserialized /\ FirstRecord["T"] \in {"q", "b"}) =>
        /\ decoded.tag = "Ok"
        /\ decoded.value.symbol = FirstRecord["S"]
        /\ decoded.value.timestamp = FirstRecord["t"]
        /\ FirstRecord["T"] = "q" =>
              /\ decoded.value.variant = "Quote"
              /\ decoded.value.bid_price = WireValue(FirstRecord, "bp")
              /\ decoded.value.ask_price = WireValue(FirstRecord, "ap")
              /\ decoded.value.bid_size = WireValue(FirstRecord, "bs")
              /\ decoded.value.ask_size = WireValue(FirstRecord, "as")
        /\ FirstRecord["T"] = "b" =>
              /\ decoded.value.variant = "Bar"
              /\ decoded.value.open = WireValue(FirstRecord, "o")
              /\ decoded.value.high = WireValue(FirstRecord, "h")
              /\ decoded.value.low = WireValue(FirstRecord, "l")
              /\ decoded.value.close = WireValue(FirstRecord, "c")
              /\ decoded.value.volume = WireValue(FirstRecord, "v")

(***************************************************************************)
(* Properties of the order and the end of a session (specification Spec)   *)
(***************************************************************************)
IsAuthRequest(e) == e.op = "send" /\ e.msg = Msg_Json(auth_message(client))

AuthSentBefore(i) == \E j \in 1..(i - 1) : IsAuthRequest(io[j])

\* C16: the authentication request is the first outbound message, sent right after the
\* upgrade (the acknowledged connect is the only interaction before it) and before any
\* inbound message is read; a subscription message is only ever sent after an
\* authentication request on the same connection.
C16_AuthRequestFirst ==
    /\ \A i \in 1..Len(io) :
          /\ (io[i].op = "send" /\ \A j \in 1..(i - 1) : io[j].op # "send") =>
                /\ IsAuthRequest(io[i])
                /\ i = 2
                /\ io[1].op = "connect"
                /\ io[1].outcome.tag = "Ok"
                /\ io[1].outcome.status = SwitchingProtocols
          /\ io[i].op = "recv" => AuthSentBefore(i)
          /\ IsSubscribeSend(io[i]) => AuthSentBefore(i)
    /\ pc \in {"auth_wait", "send_subscribe", "loop", "done"} => AuthSentBefore(Len(io) + 1)

C16_Witness ==
    /\ pc = "loop"
    /\ Len(io) >= 5
    /\ IsAuthRequest(io[2])
    /\ io[3].op = "recv"
    /\ IsSubscribeSend(io[4])

\* C17: the authentication message subscribe sends is the JSON object
\* {"action":"auth","key":K,"secret":S} with K and S the client's API key and secret.
C17_AuthMessageShape ==
    \A i \in 1..Len(io) :
        (io[i].op = "send" /\ io[i].ok /\ \A j \in 1..(i - 1) : io[j].op # "send") =>
            LET json == io[i].msg.json
            IN  /\ DOMAIN json = {"action", "key", "secret"}
                /\ json.action = "auth"
                /\ json.key = client.api_key
                /\ json.secret = client.secret_key

\* an interaction with the transport that makes subscribe fail
IsFailure(e) ==
    \/ e.op = "connect" /\ (e.outcome.tag = "Err" \/ e.outcome.status # SwitchingProtocols)
    \/ e.op = "send" /\ ~e.ok
    \/ e.op = "recv" /\ e.outcome.tag = "Err"
    \/ /\ e.op = "recv" /\ e.by = "auth" /\ e.outcome.tag = "Ok"
       /\ e.outcome.msg.kind = "Text"
       /\ HasRejectMarker(e.outcome.msg.text)

FailureIsLast ==
    /\ Len(Connects(io)) <= 1
    /\ \A i \in 1..Len(io) :
          IsFailure(io[i]) => (i = Len(io) /\ pc = "failed" /\ result.tag = "Err")
    /\ pc = "failed" <=> result.tag = "Err"
    /\ pc = "failed" => (io # <<>> /\ IsFailure(io[Len(io)]))

\* C18: a connect error, a non-upgrade status, an auth rejection, a failed send or a
\* transport error on an inbound frame ends subscribe with one error: the failing
\* interaction is the last one on the transport, nothing is sent, read or connected
\* after it, the error returned never changes, and no call connects more than once.
C18_FailureIsTerminal ==
    /\ []FailureIsLast
    /\ [][pc = "failed" => (pc' = pc /\ io' = io /\ result' = result /\ stdout' = stdout)]_vars

C18_Witness ==
    /\ pc = "failed"
    /\ result = Err("transport")
    /\ io[Len(io)].op = "recv"
    /\ io[Len(io)].by = "loop"
    /\ Len(PayloadFrames) >= 1

IsLoopClose(e) == e.op = "recv" /\ e.by = "loop" /\ e.outcome.tag = "None"

CloseIsLast ==
    /\ \A i \in 1..Len(io) :
          IsLoopClose(io[i]) =>
              /\ i = Len(io)
              /\ pc = "done"
              /\ result = Ok
              /\ Len(Connects(io)) = 1
    /\ pc = "done" => (io # <<>> /\ IsLoopClose(io[Len(io)]))

\* C19: when the transport closes after Ready the read loop stops and subscribe
\* completes without error: the closure is the last interaction on the transport, and
\* no connect, auth or subscription message follows it.
C19_ClosureEndsSession ==
    /\ []CloseIsLast
    /\ [][pc = "done" => (pc' = pc /\ io' = io /\ result' = result /\ stdout' = stdout)]_vars

C19_Witness ==
    /\ pc = "done"
    /\ result = Ok
    /\ Acknowledged
    /\ Len(PayloadFrames) >= 1

(***************************************************************************)
(* Properties of SubscriptionParamsBuilder::build (specification SpecBuilder) *)
(***************************************************************************)
BuildCalled == bpc \in {"built", "panicked"}

\* C20: SubscriptionParamsBuilder::build succeeds if and only if feed_type was called
\* before it: with no call of feed_type it panics with "FeedType is required" whatever
\* channel setters were called; otherwise the params hold the feed type of the last
\* call of feed_type and the request the channel-setter calls give (each list the
\* last argument of its setter, as SubscriptionRequestBuilder::build builds it).
C20_BuildNeedsFeedType ==
    BuildCalled =>
        /\ bpc = "built" <=> lastFeed # {}
        /\ bpc = "panicked" => built = [panic |-> "FeedType is required"]
        /\ bpc = "built" =>
              /\ built.feed_type \in lastFeed
              /\ IsRequestOfCalls(built.subscription_request)
              /\ built.subscription_request =
                     SubscriptionRequestBuilder_build(builder.subscription_request)

\* build() panicked after two channel setters were called and feed_type never was
C20_Witness ==
    /\ bpc = "panicked"
    /\ lastFeed = {}
    /\ ncalls = 2
    /\ lastArg["trades"] = {<<"AAPL">>}
    /\ lastArg["bars"] = {<<"MSFT">>}

(***************************************************************************)
(* Properties of ConfigBuilder::build (specification SpecConfig)           *)
(***************************************************************************)
ConfigBuildCalled == cpc = "returned"

WasSet(setter) == lastSet[setter] # {}

\* the flag the built Config must hold: the last argument, false with no call
ExpectedFlag ==
    IF WasSet("enable_real_trading")
    THEN CHOOSE b \in lastSet["enable_real_trading"] : TRUE
    ELSE FALSE

\* C21: ConfigBuilder::build returns a Config if and only if both the API key and
\* the secret key were set. It returns the error "API key must be set" when the API
\* key is missing (also when the secret is missing too) and "Secret key must be set"
\* when only the secret is missing. The built Config holds the last value given to
\* each setter, and enable_real_trading is false when its setter was never called.
C21_BuildNeedsBothKeys ==
    ConfigBuildCalled =>
        /\ cresult.tag = "Ok" <=> (WasSet("alpaca_api_key") /\ WasSet("alpaca_secret_key"))
        /\ ~WasSet("alpaca_api_key") => cresult = Err("API key must be set")
        /\ (WasSet("alpaca_api_key") /\ ~WasSet("alpaca_secret_key")) =>
              cresult = Err("Secret key must be set")
        /\ cresult.tag = "Ok" =>
              /\ cresult.value.alpaca_api_key \in lastSet["alpaca_api_key"]
              /\ cresult.value.alpaca_secret_key \in lastSet["alpaca_secret_key"]
              /\ cresult.value.enable_real_trading = ExpectedFlag

\* build() returned an error with neither key set, after the flag setter was called
C21_Witness ==
    /\ cpc = "returned"
    /\ nsets = 1
    /\ lastSet["enable_real_trading"] = {TRUE}
    /\ ~WasSet("alpaca_api_key")
    /\ ~WasSet("alpaca_secret_key")
    /\ cresult = Err("API key must be set")

====
